---- MODULE Spec2Model ----
(***************************************************************************)
(* The CLI code-agent execution layer: the two backend adapters            *)
(* ClineCodeInterface (pipe strategy, src/utils/cline_interface.py) and    *)
(* CodexCodeInterface (pseudo-terminal strategy,                           *)
(* src/utils/codex_interface.py).  One caller thread constructs an adapter *)
(* and calls execute_code_cli; the agent process, the probe process, the   *)
(* file system and the wall clock are the environment.  The dataset loader *)
(* of src/utils/longcodebench_loader.py has its own specifications,        *)
(* LoaderSpec and EnrichSpec.                                              *)
(*                                                                         *)
(* Text is a sequence of string tokens: an output byte is the token of one *)
(* character, a synthesized message is one token, "" is <<>>.              *)
(***************************************************************************)
EXTENDS Integers, Sequences, FiniteSets, TLC

VARIABLES
    dirs,          \* the directories that exist (absolute paths, sequences of names)
    cwdProc,       \* the process-wide current working directory (os.getcwd/os.chdir)
    kind,          \* which adapter class the caller uses: "cline" or "codex"
    ctor,          \* __init__: "none", "probe_wait", "constructed", "failed"
    ctorError,     \* the exception __init__ raised ("none" when it did not)
    probe,         \* the probe process: [st: "none", "running", "hung", "exited"; rc]
    pc,            \* position of the caller inside execute_code_cli
    args,          \* the arguments of the call: [prompt, cwd, model]
    original_cwd,  \* the local original_cwd (Unbound until line 33/31 assigned it)
    cmd,           \* the command line built
    master_fd,     \* controlling side of the pty: "none", "open", "closed"
    slave_fd,      \* subordinate side in the calling process: "none", "open", "closed"
    closeCalls,    \* os.close calls made on [master, slave]
    proc,          \* the agent process
    outbuf,        \* bytes the agent wrote to its stdout/terminal, not yet read
    errbuf,        \* bytes the agent wrote to its stderr pipe, not yet read (pipe strategy)
    emitted,       \* every byte the agent wrote to its stdout/terminal (history)
    stdout_data,   \* the chunks read so far (codex: list stdout_data; cline: captured stdout)
    stderr_data,   \* captured stderr bytes (pipe strategy)
    clock,         \* wall clock, seconds
    start_time,    \* the clock at the start of the deadline
    exc,           \* the exception being handled ("none" when none)
    result,        \* the dictionary returned (meaningful when pc = "returned")
    escaped,       \* the exception that left execute_code_cli ("none" when none)
    cwdBefore,     \* history: cwdProc immediately before the call
    spawns,        \* history: agent processes started by the current call
    expiredAlive,  \* history: the deadline passed while the agent was still running
    callsLeft,     \* calls the caller may still make
    written,       \* history: the bytes written to the controlling descriptor
    extracted,     \* what the last extract_file_changes call returned
    thr,           \* the two caller threads of the concurrent scenario
    namelist,      \* z.namelist(): the member names of the cached LongSWE_Bench.zip
    zipCached,     \* whether lcb_dir.rglob('LongSWE_Bench.zip') finds the archive
    lpc,           \* position inside load_longcodebench_dataset / ..._from_zip
    largs,         \* the arguments: [dataset_name, split, context_length]
    fallback,      \* the zip loader was entered from the except clause of line 291
    context_length_str,  \* the local context_length_str
    temp_dir,      \* the directory of tempfile.mkdtemp: "none", "exists", "removed"
    tempFiles,     \* the archive members extracted below temp_dir
    available_splits,    \* the local available_splits
    actual_split,  \* the local actual_split
    pending,       \* the exception propagating out of the try block ("none" if none)
    loaded,        \* how the call ended: the dataset returned or the exception raised
    instance,      \* the instance handed to enrich_instance_with_context
    enriched       \* the dictionary enrich_instance_with_context returned

vars == << dirs, cwdProc, kind, ctor, ctorError, probe, pc, args, original_cwd, cmd,
           master_fd, slave_fd, closeCalls, proc, outbuf, errbuf, emitted,
           stdout_data, stderr_data, clock, start_time, exc, result, escaped,
           cwdBefore, spawns, expiredAlive, callsLeft, written, extracted, thr,
           namelist, zipCached, lpc, largs, fallback, context_length_str, temp_dir,
           tempFiles, available_splits, actual_split, pending, loaded,
           instance, enriched >>

fsVars   == << dirs, cwdProc >>
ctorVars == << kind, ctor, ctorError, probe >>
fdVars   == << master_fd, slave_fd, closeCalls >>
ioVars   == << outbuf, errbuf, emitted, stdout_data, stderr_data, written >>
zipVars  == << namelist, zipCached, lpc, largs, fallback, context_length_str,
               temp_dir, tempFiles, available_splits, actual_split, pending, loaded >>
enrichVars == << instance, enriched >>
loaderVars == << zipVars, enrichVars >>
auxVars  == << extracted, thr, loaderVars >>
timeVars == << clock, start_time >>
histVars == << cwdBefore, spawns, expiredAlive, callsLeft >>

----------------------------------------------------------------------------
(* Bounds of the model *)

MaxOut == 2          \* bytes an agent process writes in one call
TickSeconds == 600   \* seconds in one clock quantum
PtyRoom == 2         \* bytes the terminal accepts while the agent does not read
MaxCalls == 2        \* calls of execute_code_cli per run
MaxFields == 2       \* context fields an instance holds

(* Program constants *)

CodexTimeout == 600          \* timeout = 600
ClineTimeout == 1800         \* timeout=1800
ReadChunk == 4096            \* os.read(master_fd, 4096)
PartialStderrLimit == 500    \* partial_stderr[:500]

----------------------------------------------------------------------------
(* Values *)

Kinds == {"cline", "codex"}

\* an output byte: "a" is ASCII, "xFF" is a byte that is not valid UTF-8
Bytes == {"a", "xFF"}
ValidByte(b) == b # "xFF"

Root == << >>
HomeDir == <<"w">>
Unbound == <<"<unbound>">>
NoDir == <<"<none>">>

\* the file system at the start: the caller is in /w, /w/r exists, /w/r/r may exist
InitialDirs == { {Root, HomeDir, <<"w", "r">>},
                 {Root, HomeDir, <<"w", "r">>, <<"w", "r", "r">>} }

\* the cwd arguments a caller passes: absolute, relative, not existing
CwdArgs == { [abs |-> TRUE,  p |-> <<"w", "r">>],
             [abs |-> FALSE, p |-> <<"r">>],
             [abs |-> TRUE,  p |-> <<"gone">>] }

Prompts == { <<"p">>, <<"p", "p", "p">> }
Models == { <<>>, <<"gpt-9">> }     \* <<>> is None / empty: falsy

ExitCodes == {0, 1}

NoProc == [st |-> "none", rc |-> 0, cwd |-> NoDir, tty |-> FALSE, sig |-> "none"]

\* a caller thread of the concurrent scenario: its position, its local
\* original_cwd, its cwd argument, the directory it changed to, the working
\* directory of the process when its agent was started, and whether its call
\* began while the other thread's call was under way
NoThread == [pc |-> "idle", original_cwd |-> Unbound,
             cwd |-> [abs |-> TRUE, p |-> Root], target |-> NoDir,
             launched |-> NoDir, overlap |-> FALSE]
Threads == {1, 2}
NoThreads == [t \in Threads |-> NoThread]

NoArgs == [prompt |-> <<>>, cwd |-> [abs |-> TRUE, p |-> Root], model |-> <<>>]

\* The cached archive.  A member name is the sequence of its components
\* (f.split('/')); the pool holds split directories with and without Arrow
\* files, metadata and stray files directly below a context length, and a
\* member below another top-level directory
LSB == "LongSWE_Bench"

ArchivePool ==
    { << LSB, "32K", "train", "data.arrow" >>,
      << LSB, "32K", "test", "data.arrow" >>,
      << LSB, "32K", "dev", "data.arrow" >>,
      << LSB, "32K", "dataset_dict.json" >>,
      << LSB, "32K", ".DS_Store" >>,
      << LSB, "128K", "test", "notes.txt" >>,
      << "__MACOSX", LSB, "32K", "train", "._data.arrow" >> }

Archives == SUBSET ArchivePool

\* the names of the split directories of the pool
SplitNames == { "train", "test", "dev" }

\* dataset names, as token sequences: two of them are of the Steefano/LCB kind
DatasetNames == { << "Steefano", "/", "LCB" >>,
                  << "local", "/", "Steefano", "--", "LCB" >>,
                  << "org", "/", "other" >> }

SplitArgs == { "test", "train" }

\* context_length: None, a string, or an integer
NoneLength == [t |-> "none", s |-> "", n |-> 0]

ContextLengths == { NoneLength,
                    [t |-> "str", s |-> "32K", n |-> 0],
                    [t |-> "str", s |-> "128K", n |-> 0],
                    [t |-> "int", s |-> "", n |-> 128000],
                    [t |-> "int", s |-> "", n |-> 20] }

NoLoadArgs == [dataset_name |-> << >>, split |-> "", context_length |-> NoneLength]

\* how a load call ended: "none" (not ended), "returned" with the split and the
\* Arrow files of the dataset, or "raised" with the exception
NotLoaded == [how |-> "none", split |-> "", key |-> "", files |-> {},
              error |-> "none"]

\* the field names has_context_files and get_context_files try, in their order
ContextFields == << "context_files", "context_file_paths", "retrieved_files",
                    "relevant_files", "k_files" >>

ContextFieldNames == { ContextFields[i] : i \in 1..Len(ContextFields) }

\* The values of a field: a list of paths, a string (a sequence of tokens: a
\* path, "\n", or a JSON token), an integer (v is its digits) or None
ListOf(paths) == [t |-> "list", v |-> paths]
StrOf(tokens) == [t |-> "str", v |-> tokens]
NoneValue == [t |-> "none", v |-> << >>]

FieldValues == { ListOf(<< >>),
                 ListOf(<< "a.py" >>),
                 StrOf(<< >>),
                 StrOf(<< "[", "a.py", "]" >>),
                 StrOf(<< "a.py", "\n", "b.py" >>),
                 StrOf(<< "3" >>),
                 NoneValue }

\* a dataset instance: a dictionary from field names to values
EmptyInstance == [f \in {} |-> NoneValue]

\* the instances: an instance_id and at most MaxFields of the context fields
Instances ==
    { ("instance_id" :> StrOf(<< "repo-1" >>)) @@ g :
        g \in UNION { [S -> FieldValues] :
                        S \in { T \in SUBSET ContextFieldNames :
                                  Cardinality(T) <= MaxFields } } }

\* enrich_instance_with_context has not been called
NotEnriched == [called |-> FALSE, dict |-> EmptyInstance]

\* extract_file_changes has not been called
Unset == <<"<unset>">>

\* the response texts handed to extract_file_changes
Responses == { << >>, <<"edited a.py">> }

NotExtracted == [response |-> << >>, changes |-> Unset]

NoResult == [success |-> FALSE, stdout |-> <<>>, stderr |-> <<>>, returncode |-> 0]

----------------------------------------------------------------------------
(* Pure helpers *)

\* path resolution of os.chdir / Popen(cwd=...): a relative path is resolved
\* against the current working directory of the process that changes directory
Resolve(base, path) == IF path.abs THEN path.p ELSE base \o path.p

\* the text sub occurs in text as a contiguous run
Contains(text, sub) ==
    \E i \in 0..(Len(text) - Len(sub)) : SubSeq(text, i + 1, i + Len(sub)) = sub

IsPrefix(s, t) == Len(s) <= Len(t) /\ SubSeq(t, 1, Len(s)) = s

Min(a, b) == IF a < b THEN a ELSE b

Take(s, n) == SubSeq(s, 1, Min(n, Len(s)))
Drop(s, n) == SubSeq(s, Min(n, Len(s)) + 1, Len(s))

RECURSIVE Join(_)
\* b''.join(stdout_data)
Join(chunks) == IF chunks = << >> THEN << >> ELSE Head(chunks) \o Join(Tail(chunks))

\* bytes.decode('utf-8', errors='ignore'): undecodable bytes are dropped
DecodeIgnore(bytes) == SelectSeq(bytes, ValidByte)

\* text=True decoding of captured pipe output is strict
Decodable(bytes) == \A i \in 1..Len(bytes) : ValidByte(bytes[i])

\* str(e)
Str(e) == << e >>

----------------------------------------------------------------------------
(* The state after the interpreter started: no adapter, no call *)

AdapterInit ==
    /\ dirs \in InitialDirs
    /\ cwdProc = HomeDir
    /\ kind \in Kinds
    /\ ctor = "none"
    /\ ctorError = "none"
    /\ probe = [st |-> "none", rc |-> 0]
    /\ pc = "idle"
    /\ args = NoArgs
    /\ original_cwd = Unbound
    /\ cmd = << >>
    /\ master_fd = "none"
    /\ slave_fd = "none"
    /\ closeCalls = [master |-> 0, slave |-> 0]
    /\ proc = NoProc
    /\ outbuf = << >>
    /\ errbuf = << >>
    /\ emitted = << >>
    /\ stdout_data = << >>
    /\ stderr_data = << >>
    /\ clock = 0
    /\ start_time = 0
    /\ exc = "none"
    /\ result = NoResult
    /\ escaped = "none"
    /\ cwdBefore = HomeDir
    /\ spawns = 0
    /\ expiredAlive = FALSE
    /\ callsLeft = MaxCalls
    /\ written = << >>
    /\ extracted = NotExtracted
    /\ thr = NoThreads

\* no dataset is being loaded and no instance has been enriched
LoaderIdle ==
    /\ lpc = "idle"
    /\ largs = NoLoadArgs
    /\ fallback = FALSE
    /\ context_length_str = ""
    /\ temp_dir = "none"
    /\ tempFiles = {}
    /\ available_splits = {}
    /\ actual_split = ""
    /\ pending = "none"
    /\ loaded = NotLoaded
    /\ enriched = NotEnriched

Init ==
    /\ AdapterInit
    /\ LoaderIdle
    /\ namelist = {}
    /\ zipCached = FALSE
    /\ instance = EmptyInstance

callVars == << pc, args, original_cwd, cmd, master_fd, slave_fd, closeCalls, proc,
               outbuf, errbuf, emitted, stdout_data, stderr_data, clock, start_time,
               exc, result, escaped, cwdBefore, spawns, expiredAlive, callsLeft,
               written >>

----------------------------------------------------------------------------
(* __init__: the availability probe                                        *)
(*   subprocess.run([cli, "version" | "--version"], capture_output=True,   *)
(*                  text=True)      -- no timeout argument                 *)

\* the probe cannot be started: FileNotFoundError is turned into RuntimeError,
\* any other OSError (PermissionError, ...) is not caught and leaves __init__ as it is
CtorSpawnFails ==
    /\ ctor = "none"
    /\ \E e \in {"FileNotFoundError", "PermissionError"} :
          ctorError' = IF e = "FileNotFoundError" THEN "RuntimeError" ELSE e
    /\ ctor' = "failed"
    /\ UNCHANGED << auxVars, kind, probe, fsVars, callVars >>

\* the probe is started; subprocess.run waits for it to exit
CtorSpawn ==
    /\ ctor = "none"
    /\ ctor' = "probe_wait"
    /\ \E st \in {"running", "hung"} : probe' = [st |-> st, rc |-> 0]
    /\ UNCHANGED << auxVars, kind, ctorError, fsVars, callVars >>

\* environment: a responsive probe exits with some status
ProbeExit ==
    /\ probe.st = "running"
    /\ \E c \in ExitCodes : probe' = [st |-> "exited", rc |-> c]
    /\ UNCHANGED << auxVars, kind, ctor, ctorError, fsVars, callVars >>

\* subprocess.run returns; if result.returncode != 0: raise RuntimeError
CtorCheck ==
    /\ ctor = "probe_wait"
    /\ probe.st = "exited"
    /\ IF probe.rc # 0
         THEN ctor' = "failed" /\ ctorError' = "RuntimeError"
         ELSE ctor' = "constructed" /\ ctorError' = "none"
    /\ UNCHANGED << auxVars, kind, probe, fsVars, callVars >>

----------------------------------------------------------------------------
(* Environment: file system and clock *)

\* a call is in progress
InCall == pc \notin {"idle", "returned", "raised"}

\* a directory below the root is removed together with what is below it (the
\* file system is followed as long as the caller may still use it)
RemoveDir ==
    /\ InCall \/ (callsLeft > 0 /\ ctor # "failed")
    /\ \E d \in dirs \ {Root} :
          dirs' = { x \in dirs : ~IsPrefix(d, x) }
    /\ UNCHANGED << auxVars, cwdProc, ctorVars, callVars >>

----------------------------------------------------------------------------
(* execute_code_cli: entry *)

\* the caller calls adapter.execute_code_cli(prompt, cwd, model); only an
\* adapter instance that __init__ returned can be called
Call ==
    /\ ctor = "constructed"
    /\ pc \in {"idle", "returned", "raised"}
    /\ callsLeft > 0
    /\ \E pr \in Prompts, c \in CwdArgs, m \in Models :
          args' = [prompt |-> pr, cwd |-> c, model |-> m]
    /\ pc' = "getcwd"
    /\ original_cwd' = Unbound
    /\ cmd' = << >>
    /\ master_fd' = "none"
    /\ slave_fd' = "none"
    /\ closeCalls' = [master |-> 0, slave |-> 0]
    /\ proc' = NoProc
    /\ outbuf' = << >>
    /\ errbuf' = << >>
    /\ emitted' = << >>
    /\ stdout_data' = << >>
    /\ stderr_data' = << >>
    /\ written' = << >>
    /\ clock' = 0          \* the clock is measured from the start of the call
    /\ start_time' = 0
    /\ exc' = "none"
    /\ result' = NoResult
    /\ escaped' = "none"
    /\ cwdBefore' = cwdProc
    /\ spawns' = 0
    /\ expiredAlive' = FALSE
    /\ callsLeft' = callsLeft - 1
    /\ UNCHANGED << auxVars, fsVars, ctorVars >>

\* original_cwd = os.getcwd(): FileNotFoundError when the directory is gone
GetCwd ==
    /\ pc = "getcwd"
    /\ IF cwdProc \in dirs
         THEN /\ original_cwd' = cwdProc
              /\ pc' = "chdir"
              /\ exc' = "none"
         ELSE /\ original_cwd' = original_cwd
              /\ pc' = "except"
              /\ exc' = "FileNotFoundError"
    /\ UNCHANGED << auxVars, fsVars, ctorVars, args, cmd, fdVars, proc, ioVars, timeVars,
                    result, escaped, histVars >>

\* os.chdir(cwd), then the command line is built
\*   cline: ["cline", "-y", "-F", "plain", "--oneshot", prompt]
\*   codex: ["codex"] + (["--model", model] if model)
\* (an argument is a text: a sequence of tokens)
\* the variant of the commented-out lines 47-48 of cline_interface.py, where
\* the model becomes a "-s model=..." setting of the command line
BuildCmdWithModel(k, a) ==
    IF k = "cline"
      THEN << <<"cline">>, <<"-y">>, <<"-F">>, <<"plain">>, <<"--oneshot">> >>
              \o (IF a.model # << >> THEN << <<"-s">>, <<"model=">> \o a.model >>
                                     ELSE << >>)
              \o << a.prompt >>
      ELSE << <<"codex">> >>
              \o (IF a.model # << >> THEN << <<"--model">>, a.model >> ELSE << >>)

BuildCmd(k, a) ==
    IF k = "cline"
      THEN << <<"cline">>, <<"-y">>, <<"-F">>, <<"plain">>, <<"--oneshot">> >>
              \o << a.prompt >>
      ELSE << <<"codex">> >>
              \o (IF a.model # << >> THEN << <<"--model">>, a.model >> ELSE << >>)

ChDir ==
    /\ pc = "chdir"
    /\ IF Resolve(cwdProc, args.cwd) \in dirs
         THEN /\ cwdProc' = Resolve(cwdProc, args.cwd)
              /\ cmd' = BuildCmd(kind, args)
              /\ pc' = IF kind = "cline" THEN "cl_run" ELSE "cx_openpty"
              /\ exc' = "none"
         ELSE /\ cwdProc' = cwdProc
              /\ cmd' = cmd
              /\ pc' = "except"
              /\ exc' = "FileNotFoundError"
    /\ UNCHANGED << auxVars, dirs, ctorVars, args, original_cwd, fdVars, proc, ioVars, timeVars,
                    result, escaped, histVars >>

----------------------------------------------------------------------------
(* Environment: the agent process and the clock *)

Elapsed == clock - start_time

\* the deadline of the running call has passed at clock value c
DeadlinePassed(c) ==
    IF kind = "cline" THEN c - start_time > ClineTimeout
                      ELSE c - start_time > CodexTimeout

\* the caller is blocked in a call that waits for the agent under a deadline
\* that has been started
Blocked == pc \in {"cl_wait", "cx_wait"}

\* time passes while the caller is blocked; the clock is followed until the
\* deadline has passed
Tick ==
    /\ Blocked
    /\ proc.st = "running"
    /\ ~expiredAlive
    /\ clock' = clock + TickSeconds
    /\ expiredAlive' = DeadlinePassed(clock + TickSeconds)
    /\ UNCHANGED << auxVars, fsVars, ctorVars, pc, args, original_cwd, cmd, fdVars, proc, ioVars,
                    start_time, exc, result, escaped, cwdBefore, spawns, callsLeft >>

\* the agent writes a byte to its standard output (pipe) or to its terminal
ProcWrite ==
    /\ InCall
    /\ proc.st = "running"
    /\ proc.tty \/ kind = "cline"
    /\ Len(emitted) + Len(errbuf) < MaxOut
    /\ \E b \in Bytes :
          /\ outbuf' = Append(outbuf, b)
          /\ emitted' = Append(emitted, b)
    /\ UNCHANGED << auxVars, fsVars, ctorVars, pc, args, original_cwd, cmd, fdVars, proc, errbuf,
                    stdout_data, stderr_data, timeVars, exc, result, escaped, histVars, written >>

\* the agent writes a byte to its standard error pipe (pipe strategy; with a
\* terminal, standard error is the terminal: ProcWrite)
ProcWriteErr ==
    /\ InCall
    /\ proc.st = "running"
    /\ kind = "cline"
    /\ Len(emitted) + Len(errbuf) < MaxOut
    /\ \E b \in Bytes : errbuf' = Append(errbuf, b)
    /\ UNCHANGED << auxVars, fsVars, ctorVars, pc, args, original_cwd, cmd, fdVars, proc, outbuf,
                    emitted, stdout_data, stderr_data, timeVars, exc, result, escaped,
                    histVars, written >>

\* a standard error text one character longer than the handler's slice
LongStderr == [i \in 1..(PartialStderrLimit + 1) |-> "a"]

\* the agent writes a long diagnostic to its standard error pipe at once
ProcWriteErrBurst ==
    /\ InCall
    /\ proc.st = "running"
    /\ kind = "cline"
    /\ emitted = << >> /\ errbuf = << >>
    /\ errbuf' = LongStderr
    /\ UNCHANGED << auxVars, fsVars, ctorVars, pc, args, original_cwd, cmd, fdVars, proc, outbuf,
                    emitted, stdout_data, stderr_data, timeVars, exc, result, escaped,
                    histVars, written >>

\* the agent exits with some exit code; its side of the terminal is closed
ProcExit ==
    /\ InCall
    /\ proc.st = "running"
    /\ \E c \in ExitCodes : proc' = [proc EXCEPT !.st = "exited", !.rc = c, !.tty = FALSE]
    /\ UNCHANGED << auxVars, fsVars, ctorVars, pc, args, original_cwd, cmd, fdVars, ioVars,
                    timeVars, exc, result, escaped, histVars >>

\* the agent closes its side of the terminal and keeps running
ProcCloseTty ==
    /\ InCall
    /\ proc.st = "running"
    /\ proc.tty
    /\ proc' = [proc EXCEPT !.tty = FALSE]
    /\ UNCHANGED << auxVars, fsVars, ctorVars, pc, args, original_cwd, cmd, fdVars, ioVars,
                    timeVars, exc, result, escaped, histVars >>

\* an agent that was sent SIGTERM and does not ignore it dies of it
ProcDies ==
    /\ InCall
    /\ proc.st = "running"
    /\ proc.sig = "TERM"
    /\ proc' = [proc EXCEPT !.st = "exited", !.rc = -15, !.tty = FALSE]
    /\ UNCHANGED << auxVars, fsVars, ctorVars, pc, args, original_cwd, cmd, fdVars, ioVars,
                    timeVars, exc, result, escaped, histVars >>

----------------------------------------------------------------------------
(* Results *)

\* lines 61-66 of cline_interface.py
ClineCleanResult(rc, out, err) ==
    [success |-> rc = 0, stdout |-> out, stderr |-> err, returncode |-> rc]

\* lines 70-82 of cline_interface.py
ClineTimeoutMsg(pout, perr) ==
    << "Command timed out after 30 minutes" >>
      \o (IF pout # << >> \/ perr # << >>
            THEN << ". Partial output - stdout: ", ToString(Len(pout)),
                    " chars, stderr: ", ToString(Len(perr)), " chars" >>
            ELSE << >>)

ClineTimeoutResult(pout, perr) ==
    [success |-> FALSE,
     stdout |-> pout,
     stderr |-> ClineTimeoutMsg(pout, perr)
                  \o (IF perr # << >>
                        THEN << "\nPartial stderr: " >> \o Take(perr, PartialStderrLimit)
                        ELSE << >>),
     returncode |-> -1]

\* lines 85-90 of cline_interface.py, lines 134-139 of codex_interface.py
ErrorResult(e) ==
    [success |-> FALSE, stdout |-> << >>, stderr |-> Str(e), returncode |-> -1]

----------------------------------------------------------------------------
(* ClineCodeInterface.execute_code_cli: the pipe strategy                  *)
(*   result = subprocess.run(cmd, capture_output=True, text=True,          *)
(*                           timeout=1800)                                 *)

\* the agent process cannot be started (binary gone since the probe, fork failure)
ClineSpawnFails ==
    /\ pc = "cl_run"
    /\ \E e \in {"FileNotFoundError", "OSError"} : exc' = e
    /\ pc' = "except"
    /\ UNCHANGED << auxVars, fsVars, ctorVars, args, original_cwd, cmd, fdVars, proc, ioVars,
                    timeVars, result, escaped, histVars >>

\* the agent process is started in the current directory of the calling process
ClineSpawn ==
    /\ pc = "cl_run"
    /\ proc' = [st |-> "running", rc |-> 0, cwd |-> cwdProc, tty |-> FALSE,
                sig |-> "none"]
    /\ spawns' = spawns + 1
    /\ start_time' = clock
    /\ pc' = "cl_wait"
    /\ UNCHANGED << auxVars, fsVars, ctorVars, args, original_cwd, cmd, fdVars, ioVars, clock,
                    exc, result, escaped, cwdBefore, expiredAlive, callsLeft >>

\* communicate() returns before the deadline: the captured output is decoded
\* (text=True: strict), UnicodeDecodeError when it is not decodable
ClineRunReturns ==
    /\ pc = "cl_wait"
    /\ proc.st = "exited"
    /\ ~expiredAlive
    /\ IF Decodable(outbuf) /\ Decodable(errbuf)
         THEN /\ stdout_data' = outbuf
              /\ stderr_data' = errbuf
              /\ pc' = "cl_restore"
              /\ exc' = "none"
         ELSE /\ UNCHANGED << stdout_data, stderr_data >>
              /\ pc' = "except"
              /\ exc' = "UnicodeDecodeError"
    /\ UNCHANGED << auxVars, fsVars, ctorVars, args, original_cwd, cmd, fdVars, proc, outbuf,
                    errbuf, emitted, timeVars, result, escaped, histVars, written >>

\* the deadline passes first: run() kills the process, waits for it and raises
\* TimeoutExpired carrying the bytes captured so far
ClineRunTimesOut ==
    /\ pc = "cl_wait"
    /\ expiredAlive
    /\ proc' = [proc EXCEPT !.st = "exited", !.rc = -9, !.sig = "KILL"]
    /\ stdout_data' = outbuf
    /\ stderr_data' = errbuf
    /\ exc' = "TimeoutExpired"
    /\ pc' = "cl_timeout"
    /\ UNCHANGED << auxVars, fsVars, ctorVars, args, original_cwd, cmd, fdVars, outbuf, errbuf,
                    emitted, timeVars, result, escaped, histVars, written >>

\* lines 60-66: os.chdir(original_cwd); return {...}
ClineReturn ==
    /\ pc = "cl_restore"
    /\ IF original_cwd \in dirs
         THEN /\ cwdProc' = original_cwd
              /\ result' = ClineCleanResult(proc.rc, stdout_data, stderr_data)
              /\ pc' = "returned"
              /\ exc' = "none"
         ELSE /\ UNCHANGED << cwdProc, result >>
              /\ pc' = "except"
              /\ exc' = "FileNotFoundError"
    /\ UNCHANGED << auxVars, dirs, ctorVars, args, original_cwd, cmd, fdVars, proc, ioVars,
                    timeVars, escaped, histVars >>

\* a handler that launches the agent again after the deadline
ClineTimeoutHandlerRetries ==
    /\ pc = "cl_timeout"
    /\ pc' = "cl_run"
    /\ exc' = "none"
    /\ UNCHANGED << auxVars, fsVars, ctorVars, args, original_cwd, cmd, fdVars, proc, ioVars,
                    timeVars, result, escaped, histVars >>

\* lines 67-82: except subprocess.TimeoutExpired; an exception raised inside the
\* handler leaves execute_code_cli
ClineTimeoutHandler ==
    /\ pc = "cl_timeout"
    /\ IF original_cwd \in dirs
         THEN /\ cwdProc' = original_cwd
              /\ result' = ClineTimeoutResult(stdout_data, stderr_data)
              /\ pc' = "returned"
              /\ escaped' = "none"
         ELSE /\ UNCHANGED << cwdProc, result >>
              /\ pc' = "raised"
              /\ escaped' = "FileNotFoundError"
    /\ exc' = "none"
    /\ UNCHANGED << auxVars, dirs, ctorVars, args, original_cwd, cmd, fdVars, proc, ioVars,
                    timeVars, histVars >>

\* lines 83-90: except Exception; os.chdir(original_cwd) raises UnboundLocalError
\* when os.getcwd() failed before original_cwd was assigned
ClineExcept ==
    /\ pc = "except"
    /\ kind = "cline"
    /\ IF original_cwd = Unbound
         THEN /\ UNCHANGED << cwdProc, result >>
              /\ pc' = "raised"
              /\ escaped' = "UnboundLocalError"
         ELSE IF original_cwd \notin dirs
         THEN /\ UNCHANGED << cwdProc, result >>
              /\ pc' = "raised"
              /\ escaped' = "FileNotFoundError"
         ELSE /\ cwdProc' = original_cwd
              /\ result' = ErrorResult(exc)
              /\ pc' = "returned"
              /\ escaped' = "none"
    /\ exc' = exc
    /\ UNCHANGED << auxVars, dirs, ctorVars, args, original_cwd, cmd, fdVars, proc, ioVars,
                    timeVars, histVars >>

ExtractResultParsed(response) ==
    IF response = << >> THEN << >> ELSE << response >>

\* lines 92-94 of cline_interface.py, lines 141-143 of codex_interface.py:
\* return []
ExtractResult(response) ==
    << >>

\* extract_file_changes(response), called by the thread that makes the calls,
\* hence between calls
ExtractFileChanges ==
    /\ ctor = "constructed"
    /\ pc \in {"idle", "returned", "raised"}
    /\ \E r \in Responses :
          extracted' = [response |-> r, changes |-> ExtractResult(r)]
    /\ UNCHANGED << thr, loaderVars, fsVars, ctorVars, callVars >>

ClineNext ==
    \/ ClineSpawnFails
    \/ ClineSpawn
    \/ ClineRunReturns
    \/ ClineRunTimesOut
    \/ ClineReturn
    \/ ClineTimeoutHandler
    \/ ClineExcept

CtorNext == CtorSpawnFails \/ CtorSpawn \/ ProbeExit \/ CtorCheck

EnvNext ==
    \/ RemoveDir
    \/ Tick
    \/ ProcWrite
    \/ ProcWriteErr
    \/ ProcWriteErrBurst
    \/ ProcExit
    \/ ProcCloseTty
    \/ ProcDies

----------------------------------------------------------------------------
(* CodexCodeInterface.execute_code_cli: the pseudo-terminal strategy       *)
(* (the handler "except subprocess.TimeoutExpired" of lines 124-131 has no *)
(* action: no call inside the try block raises TimeoutExpired)             *)

\* lines 70-75
CodexTimeoutResult ==
    [success |-> FALSE, stdout |-> << >>,
     stderr |-> << "Command timed out after 10 minutes" >>, returncode |-> -1]

\* a slip in line 110: success computed as returncode >= 0
CodexCleanResultNonNegative(rc, data) ==
    [success |-> rc >= 0, stdout |-> DecodeIgnore(Join(data)), stderr |-> << >>,
     returncode |-> rc]

\* lines 103, 109-114
CodexCleanResult(rc, data) ==
    [success |-> rc = 0, stdout |-> DecodeIgnore(Join(data)), stderr |-> << >>,
     returncode |-> rc]

\* line 39: master_fd, slave_fd = pty.openpty(), outside the inner try
CodexOpenPty ==
    /\ pc = "cx_openpty"
    /\ \/ /\ master_fd' = "open"
          /\ slave_fd' = "open"
          /\ pc' = "cx_popen"
          /\ exc' = "none"
       \/ /\ UNCHANGED << master_fd, slave_fd >>
          /\ pc' = "except"
          /\ exc' = "OSError"
    /\ UNCHANGED << auxVars, fsVars, ctorVars, args, original_cwd, cmd, closeCalls, proc, ioVars,
                    timeVars, result, escaped, histVars >>

\* lines 43-51: subprocess.Popen(cmd, stdin=slave_fd, ..., cwd=cwd); the child
\* changes to cwd, resolved against the directory the caller already changed to
CodexSpawn ==
    /\ pc = "cx_popen"
    /\ Resolve(cwdProc, args.cwd) \in dirs
    /\ proc' = [st |-> "running", rc |-> 0, cwd |-> Resolve(cwdProc, args.cwd),
                tty |-> TRUE, sig |-> "none"]
    /\ spawns' = spawns + 1
    /\ pc' = "cx_close_slave"
    /\ UNCHANGED << auxVars, fsVars, ctorVars, args, original_cwd, cmd, fdVars, ioVars, timeVars,
                    exc, result, escaped, cwdBefore, expiredAlive, callsLeft >>

\* Popen raises: the child's directory does not exist, the binary is gone, fork fails
CodexSpawnFails ==
    /\ pc = "cx_popen"
    /\ \E e \in {"FileNotFoundError", "OSError"} : exc' = e
    /\ pc' = "cx_inner_except"
    /\ UNCHANGED << auxVars, fsVars, ctorVars, args, original_cwd, cmd, fdVars, proc, ioVars,
                    timeVars, result, escaped, histVars >>

\* line 54: os.close(slave_fd)
CodexCloseSlave ==
    /\ pc = "cx_close_slave"
    /\ slave_fd' = "closed"
    /\ closeCalls' = [closeCalls EXCEPT !.slave = @ + 1]
    /\ pc' = "cx_write"
    /\ UNCHANGED << auxVars, fsVars, ctorVars, args, original_cwd, cmd, master_fd, proc, ioVars,
                    timeVars, exc, result, escaped, histVars >>

\* the bytes of (prompt + "\n").encode('utf-8')
PromptBytes(prompt) == prompt \o << "\n" >>

\* lines 57-63: os.write(master_fd, prompt_bytes) on a blocking descriptor
\* returns when the terminal took the bytes; then stdout_data = [],
\* start_time = time.time()
CodexWritePrompt ==
    /\ pc = "cx_write"
    /\ Len(PromptBytes(args.prompt)) <= PtyRoom \/ ~proc.tty
    /\ written' = written \o PromptBytes(args.prompt)
    /\ stdout_data' = << >>
    /\ start_time' = clock
    /\ pc' = "cx_deadline"
    /\ UNCHANGED << auxVars, fsVars, ctorVars, args, original_cwd, cmd, fdVars, proc, outbuf,
                    errbuf, emitted, stderr_data, clock, exc, result, escaped, histVars >>

\* the bytes do not fit: os.write blocks until the agent reads its terminal
\* (an agent that never reads leaves the caller blocked)
CodexWriteUnblocked ==
    /\ pc = "cx_write"
    /\ Len(PromptBytes(args.prompt)) > PtyRoom
    /\ proc.st = "running" /\ proc.tty
    /\ written' = written \o PromptBytes(args.prompt)
    /\ stdout_data' = << >>
    /\ start_time' = clock
    /\ pc' = "cx_deadline"
    /\ UNCHANGED << auxVars, fsVars, ctorVars, args, original_cwd, cmd, fdVars, proc, outbuf,
                    errbuf, emitted, stderr_data, clock, exc, result, escaped, histVars >>

\* os.write raises OSError (EIO) when the other side of the terminal is closed
CodexWriteFails ==
    /\ pc = "cx_write"
    /\ ~proc.tty
    /\ exc' = "OSError"
    /\ pc' = "cx_inner_except"
    /\ UNCHANGED << auxVars, fsVars, ctorVars, args, original_cwd, cmd, fdVars, proc, ioVars,
                    timeVars, result, escaped, histVars >>

\* line 66: if time.time() - start_time > timeout
CodexDeadline ==
    /\ pc = "cx_deadline"
    /\ pc' = IF Elapsed > CodexTimeout THEN "cx_terminate" ELSE "cx_poll"
    /\ UNCHANGED << auxVars, fsVars, ctorVars, args, original_cwd, cmd, fdVars, proc, ioVars,
                    timeVars, exc, result, escaped, histVars >>

\* line 67: process.terminate() sends SIGTERM to a process that has not been reaped
CodexTerminate ==
    /\ pc = "cx_terminate"
    /\ proc' = IF proc.st = "running" THEN [proc EXCEPT !.sig = "TERM"] ELSE proc
    /\ pc' = "cx_to_restore"
    /\ UNCHANGED << auxVars, fsVars, ctorVars, args, original_cwd, cmd, fdVars, ioVars, timeVars,
                    exc, result, escaped, histVars >>

\* a slip in line 68: the timeout branch without os.chdir(original_cwd)
CodexTimeoutNoRestore ==
    /\ pc = "cx_to_restore"
    /\ pc' = "cx_to_return"
    /\ UNCHANGED << auxVars, fsVars, ctorVars, args, original_cwd, cmd, fdVars, proc, ioVars,
                    timeVars, exc, result, escaped, histVars >>

\* line 68: os.chdir(original_cwd)
CodexTimeoutRestore ==
    /\ pc = "cx_to_restore"
    /\ IF original_cwd \in dirs
         THEN /\ cwdProc' = original_cwd
              /\ pc' = "cx_to_return"
              /\ exc' = "none"
         ELSE /\ cwdProc' = cwdProc
              /\ pc' = "cx_inner_except"
              /\ exc' = "FileNotFoundError"
    /\ UNCHANGED << auxVars, dirs, ctorVars, args, original_cwd, cmd, fdVars, proc, ioVars,
                    timeVars, result, escaped, histVars >>

\* lines 69-75: os.close(master_fd); return {...}
CodexTimeoutReturn ==
    /\ pc = "cx_to_return"
    /\ master_fd' = "closed"
    /\ closeCalls' = [closeCalls EXCEPT !.master = @ + 1]
    /\ result' = CodexTimeoutResult
    /\ pc' = "returned"
    /\ UNCHANGED << auxVars, fsVars, ctorVars, args, original_cwd, cmd, slave_fd, proc, ioVars,
                    timeVars, exc, escaped, histVars >>

CodexPollAlwaysBreaks ==
    /\ pc = "cx_poll"
    /\ pc' = "cx_drain"
    /\ UNCHANGED << auxVars, fsVars, ctorVars, args, original_cwd, cmd, fdVars, proc, ioVars,
                    timeVars, exc, result, escaped, histVars >>

\* line 77: if process.poll() is not None: break
CodexPoll ==
    /\ pc = "cx_poll"
    /\ pc' = IF proc.st = "exited" THEN "cx_drain" ELSE "cx_select"
    /\ UNCHANGED << auxVars, fsVars, ctorVars, args, original_cwd, cmd, fdVars, proc, ioVars,
                    timeVars, exc, result, escaped, histVars >>

\* the controlling descriptor is readable: bytes are buffered, or the other side
\* is closed (hang-up)
Readable == outbuf # << >> \/ ~proc.tty

\* line 82: select.select([master_fd], [], [], 0.1) finds the descriptor readable
CodexSelectReady ==
    /\ pc = "cx_select"
    /\ Readable
    /\ pc' = "cx_read"
    /\ UNCHANGED << auxVars, fsVars, ctorVars, args, original_cwd, cmd, fdVars, proc, ioVars,
                    timeVars, exc, result, escaped, histVars >>

\* line 82: select times out.  One step stands for the run of idle polls that
\* lasts until the clock reaches its next quantum
CodexSelectIdle ==
    /\ pc = "cx_select"
    /\ ~Readable
    /\ clock' = clock + TickSeconds
    /\ expiredAlive' = (expiredAlive
                          \/ (proc.st = "running" /\ DeadlinePassed(clock + TickSeconds)))
    /\ pc' = "cx_deadline"
    /\ UNCHANGED << auxVars, fsVars, ctorVars, args, original_cwd, cmd, fdVars, proc, ioVars,
                    start_time, exc, result, escaped, cwdBefore, spawns, callsLeft >>

\* lines 84-86: data = os.read(master_fd, 4096); if data: stdout_data.append(data)
CodexRead ==
    /\ pc = "cx_read"
    /\ outbuf # << >>
    /\ stdout_data' = Append(stdout_data, Take(outbuf, ReadChunk))
    /\ outbuf' = Drop(outbuf, ReadChunk)
    /\ pc' = "cx_deadline"
    /\ UNCHANGED << auxVars, fsVars, ctorVars, args, original_cwd, cmd, fdVars, proc, errbuf,
                    emitted, stderr_data, timeVars, exc, result, escaped, histVars, written >>

\* lines 87-88: after a hang-up with nothing buffered os.read raises OSError
\* (Linux: EIO) and the loop is left
CodexReadError ==
    /\ pc = "cx_read"
    /\ outbuf = << >>
    /\ pc' = "cx_drain"
    /\ UNCHANGED << auxVars, fsVars, ctorVars, args, original_cwd, cmd, fdVars, proc, ioVars,
                    timeVars, exc, result, escaped, histVars >>

\* lines 84-85: ... or returns b"" (end of file on other systems) and the loop
\* goes on: once the agent has exited the next iteration observes it at
\* once; while it runs, one step stands for the run of such reads until the
\* next quantum
CodexReadEof ==
    /\ pc = "cx_read"
    /\ outbuf = << >>
    /\ clock' = IF proc.st = "running" THEN clock + TickSeconds ELSE clock
    /\ expiredAlive' = (expiredAlive
                          \/ (proc.st = "running" /\ DeadlinePassed(clock + TickSeconds)))
    /\ pc' = "cx_deadline"
    /\ UNCHANGED << auxVars, fsVars, ctorVars, args, original_cwd, cmd, fdVars, proc, ioVars,
                    start_time, exc, result, escaped, cwdBefore, spawns, callsLeft >>

\* lines 91-97: the final drain loop reads what is buffered
CodexDrainRead ==
    /\ pc = "cx_drain"
    /\ outbuf # << >>
    /\ stdout_data' = Append(stdout_data, Take(outbuf, ReadChunk))
    /\ outbuf' = Drop(outbuf, ReadChunk)
    /\ UNCHANGED << auxVars, fsVars, ctorVars, pc, args, original_cwd, cmd, fdVars, proc, errbuf,
                    emitted, stderr_data, timeVars, exc, result, escaped, histVars, written >>

\* lines 92-101: nothing is buffered: select times out, or os.read returns b""
\* or raises OSError; each leaves the loop
CodexDrainEnd ==
    /\ pc = "cx_drain"
    /\ outbuf = << >>
    /\ pc' = "cx_wait"
    /\ UNCHANGED << auxVars, fsVars, ctorVars, args, original_cwd, cmd, fdVars, proc, ioVars,
                    timeVars, exc, result, escaped, histVars >>

\* lines 103-104: stdout = b''.join(stdout_data).decode(...);
\* returncode = process.wait() -- no timeout: returns when the agent has exited
CodexWait ==
    /\ pc = "cx_wait"
    /\ proc.st = "exited"
    /\ pc' = "cx_restore"
    /\ UNCHANGED << auxVars, fsVars, ctorVars, args, original_cwd, cmd, fdVars, proc, ioVars,
                    timeVars, exc, result, escaped, histVars >>

\* line 106: os.chdir(original_cwd)
CodexRestore ==
    /\ pc = "cx_restore"
    /\ IF original_cwd \in dirs
         THEN /\ cwdProc' = original_cwd
              /\ pc' = "cx_return"
              /\ exc' = "none"
         ELSE /\ cwdProc' = cwdProc
              /\ pc' = "cx_inner_except"
              /\ exc' = "FileNotFoundError"
    /\ UNCHANGED << auxVars, dirs, ctorVars, args, original_cwd, cmd, fdVars, proc, ioVars,
                    timeVars, result, escaped, histVars >>

\* lines 107-114: os.close(master_fd); return {...}
CodexReturn ==
    /\ pc = "cx_return"
    /\ master_fd' = "closed"
    /\ closeCalls' = [closeCalls EXCEPT !.master = @ + 1]
    /\ result' = CodexCleanResult(proc.rc, stdout_data)
    /\ pc' = "returned"
    /\ UNCHANGED << auxVars, fsVars, ctorVars, args, original_cwd, cmd, slave_fd, proc, ioVars,
                    timeVars, exc, escaped, histVars >>

\* lines 116-122: except Exception as e: try: os.close(master_fd) except: pass;
\* os.chdir(original_cwd); raise e.  slave_fd is not closed here.  When chdir
\* raises, its exception is the one that reaches the outer handler
CodexInnerExcept ==
    /\ pc = "cx_inner_except"
    /\ master_fd' = "closed"
    /\ closeCalls' = [closeCalls EXCEPT !.master = @ + 1]
    /\ IF original_cwd \in dirs
         THEN /\ cwdProc' = original_cwd
              /\ exc' = exc
         ELSE /\ cwdProc' = cwdProc
              /\ exc' = "FileNotFoundError"
    /\ pc' = "except"
    /\ UNCHANGED << auxVars, dirs, ctorVars, args, original_cwd, cmd, slave_fd, proc, ioVars,
                    timeVars, result, escaped, histVars >>

\* lines 132-139: except Exception; os.chdir(original_cwd) raises
\* UnboundLocalError when os.getcwd() failed before original_cwd was assigned
CodexExcept ==
    /\ pc = "except"
    /\ kind = "codex"
    /\ IF original_cwd = Unbound
         THEN /\ UNCHANGED << cwdProc, result >>
              /\ pc' = "raised"
              /\ escaped' = "UnboundLocalError"
         ELSE IF original_cwd \notin dirs
         THEN /\ UNCHANGED << cwdProc, result >>
              /\ pc' = "raised"
              /\ escaped' = "FileNotFoundError"
         ELSE /\ cwdProc' = original_cwd
              /\ result' = ErrorResult(exc)
              /\ pc' = "returned"
              /\ escaped' = "none"
    /\ exc' = exc
    /\ UNCHANGED << auxVars, dirs, ctorVars, args, original_cwd, cmd, fdVars, proc, ioVars,
                    timeVars, histVars >>

CodexNext ==
    \/ CodexOpenPty
    \/ CodexSpawn
    \/ CodexSpawnFails
    \/ CodexCloseSlave
    \/ CodexWritePrompt
    \/ CodexWriteUnblocked
    \/ CodexWriteFails
    \/ CodexDeadline
    \/ CodexTerminate
    \/ CodexTimeoutRestore
    \/ CodexTimeoutReturn
    \/ CodexPoll
    \/ CodexSelectReady
    \/ CodexSelectIdle
    \/ CodexRead
    \/ CodexReadError
    \/ CodexReadEof
    \/ CodexDrainRead
    \/ CodexDrainEnd
    \/ CodexWait
    \/ CodexRestore
    \/ CodexReturn
    \/ CodexInnerExcept
    \/ CodexExcept

----------------------------------------------------------------------------
(* Specifications *)

CallNext == Call \/ GetCwd \/ ChDir

----------------------------------------------------------------------------
(* Two threads of one process, each making one execute_code_cli call on the *)
(* adapter.  The working directory is a property of the process: both       *)
(* threads read and change cwdProc.  A thread can be preempted between any  *)
(* two system calls; the run of the agent is one step                       *)

Other(t) == 3 - t

ThrInCall(t) == thr[t].pc \notin {"idle", "returned"}

ThrCall(t) ==
    /\ ctor = "constructed"
    /\ pc = "idle"
    /\ thr[t].pc = "idle"
    /\ \E c \in CwdArgs :
          thr' = [thr EXCEPT ![t] = [@ EXCEPT !.pc = "getcwd", !.cwd = c,
                                               !.overlap = ThrInCall(Other(t))]]
    /\ UNCHANGED << extracted, loaderVars, fsVars, ctorVars, callVars >>

\* original_cwd = os.getcwd()
ThrGetCwd(t) ==
    /\ thr[t].pc = "getcwd"
    /\ thr' = [thr EXCEPT ![t] = [@ EXCEPT !.pc = "chdir", !.original_cwd = cwdProc]]
    /\ UNCHANGED << extracted, loaderVars, fsVars, ctorVars, callVars >>

\* os.chdir(cwd)
ThrChDir(t) ==
    /\ thr[t].pc = "chdir"
    /\ IF Resolve(cwdProc, thr[t].cwd) \in dirs
         THEN /\ cwdProc' = Resolve(cwdProc, thr[t].cwd)
              /\ thr' = [thr EXCEPT ![t] = [@ EXCEPT !.pc = "launch",
                                                     !.target = cwdProc']]
         ELSE /\ cwdProc' = cwdProc
              /\ thr' = [thr EXCEPT ![t] = [@ EXCEPT !.pc = "handler"]]
    /\ UNCHANGED << extracted, loaderVars, dirs, ctorVars, callVars >>

\* subprocess.run(cmd) / subprocess.Popen(cmd, cwd=cwd) and the wait for the
\* agent: the agent starts from the working directory the process has now
ThrLaunch(t) ==
    /\ thr[t].pc = "launch"
    /\ IF kind = "codex" /\ Resolve(cwdProc, thr[t].cwd) \notin dirs
         THEN thr' = [thr EXCEPT ![t] = [@ EXCEPT !.pc = "inner_handler"]]
         ELSE thr' = [thr EXCEPT ![t] = [@ EXCEPT !.pc = "restore",
                                                  !.launched = cwdProc]]
    /\ UNCHANGED << extracted, loaderVars, fsVars, ctorVars, callVars >>

ThrRestoreSkipped(t) ==
    /\ thr[t].pc = "restore"
    /\ cwdProc' = cwdProc
    /\ thr' = [thr EXCEPT ![t] = [@ EXCEPT !.pc = "returned"]]
    /\ UNCHANGED << extracted, loaderVars, dirs, ctorVars, callVars >>

\* os.chdir(original_cwd) before the result is returned
ThrRestore(t) ==
    /\ thr[t].pc = "restore"
    /\ cwdProc' = thr[t].original_cwd
    /\ thr' = [thr EXCEPT ![t] = [@ EXCEPT !.pc = "returned"]]
    /\ UNCHANGED << extracted, loaderVars, dirs, ctorVars, callVars >>

\* lines 116-122 of codex_interface.py: os.chdir(original_cwd); raise e
ThrInnerHandler(t) ==
    /\ thr[t].pc = "inner_handler"
    /\ cwdProc' = thr[t].original_cwd
    /\ thr' = [thr EXCEPT ![t] = [@ EXCEPT !.pc = "handler"]]
    /\ UNCHANGED << extracted, loaderVars, dirs, ctorVars, callVars >>

\* except Exception: os.chdir(original_cwd); return the failure result
ThrHandler(t) ==
    /\ thr[t].pc = "handler"
    /\ cwdProc' = thr[t].original_cwd
    /\ thr' = [thr EXCEPT ![t] = [@ EXCEPT !.pc = "returned"]]
    /\ UNCHANGED << extracted, loaderVars, dirs, ctorVars, callVars >>

ThrNext ==
    \E t \in Threads :
        \/ ThrCall(t)
        \/ ThrGetCwd(t)
        \/ ThrChDir(t)
        \/ ThrLaunch(t)
        \/ ThrRestore(t)
        \/ ThrInnerHandler(t)
        \/ ThrHandler(t)

ConcNext == CtorNext \/ ThrNext

ConcSpec == Init /\ [][ConcNext]_vars

----------------------------------------------------------------------------
(* load_longcodebench_dataset and load_longcodebench_from_zip               *)
(* (src/utils/longcodebench_loader.py)                                      *)

\* dataset_name.replace('/', '--')
ReplaceSlash(name) == [i \in 1..Len(name) |-> IF name[i] = "/" THEN "--" ELSE name[i]]

\* line 284
IsSteefano(name) ==
    \/ Contains(name, << "Steefano", "/", "LCB" >>)
    \/ Contains(ReplaceSlash(name), << "Steefano", "--", "LCB" >>)

\* lines 154-174
ContextLengthStr(c) ==
    IF c.t = "none" THEN "32K"
    ELSE IF c.t = "str" THEN c.s
    ELSE IF c.n >= 1000000 THEN "1M"
    ELSE IF c.n >= 512000 THEN "512K"
    ELSE IF c.n >= 256000 THEN "256K"
    ELSE IF c.n >= 128000 THEN "128K"
    ELSE IF c.n >= 64000 THEN "64K"
    ELSE "32K"

\* line 185: f'LongSWE_Bench/{context_length_str}/' in f, anywhere in the name
UnderContext(f, ctx) ==
    \E i \in 1..(Len(f) - 2) : f[i] = LSB /\ f[i + 1] = ctx

MetadataNames == { "dataset_dict.json", "dataset_info.json", "state.json" }

\* lines 183-190: the third component of every such name that is not empty and
\* not one of the three metadata names
AvailableSplits(names, ctx) ==
    { f[3] : f \in { g \in names : /\ UnderContext(g, ctx)
                                   /\ Len(g) >= 3
                                   /\ g[3] # ""
                                   /\ g[3] \notin MetadataNames } }

\* lines 216-217: the names that start with LongSWE_Bench/<ctx>/<split>/
FilesToExtract(names, ctx, split) ==
    { f \in names : Len(f) >= 4 /\ f[1] = LSB /\ f[2] = ctx /\ f[3] = split }

\* line 230: dataset_path.glob('*.arrow')
ArrowFiles(files) == { f \in files : Len(f) = 4 /\ f[4] = "data.arrow" }

\* line 236: load_dataset('arrow', data_files=pattern) puts the files of a
\* pattern given as one string under the key 'train'
DatasetDictKeys == { "train" }

\* lines 240-257: the key of dataset_dict that is returned ("" when none is)
PickKey(actual, keys) ==
    IF actual \in keys THEN actual
    ELSE IF "train" \in keys THEN "train"
    ELSE IF Cardinality(keys) = 1 THEN CHOOSE k \in keys : TRUE
    ELSE ""

LoadCall ==
    /\ lpc = "idle"
    /\ \E d \in DatasetNames, s \in SplitArgs, c \in ContextLengths :
          largs' = [dataset_name |-> d, split |-> s, context_length |-> c]
    /\ lpc' = "dispatch"
    /\ UNCHANGED << namelist, zipCached, fallback, context_length_str, temp_dir,
                    tempFiles, available_splits, actual_split, pending, loaded,
                    enrichVars, extracted, thr, fsVars, ctorVars, callVars >>

\* lines 284-286: a Steefano/LCB name goes to the zip loader
LoadDispatch ==
    /\ lpc = "dispatch"
    /\ lpc' = IF IsSteefano(largs.dataset_name) THEN "zip_find" ELSE "std_load"
    /\ UNCHANGED << namelist, zipCached, largs, fallback, context_length_str, temp_dir,
                    tempFiles, available_splits, actual_split, pending, loaded,
                    enrichVars, extracted, thr, fsVars, ctorVars, callVars >>

\* lines 289-317: load_dataset(dataset_name, split=split) succeeds; none of the
\* names carries a context length, so line 312 does not raise
StdLoadReturns ==
    /\ lpc = "std_load"
    /\ loaded' = [how |-> "returned", split |-> largs.split, key |-> largs.split,
                  files |-> {}, error |-> "none"]
    /\ lpc' = "done"
    /\ UNCHANGED << namelist, zipCached, largs, fallback, context_length_str, temp_dir,
                    tempFiles, available_splits, actual_split, pending,
                    enrichVars, extracted, thr, fsVars, ctorVars, callVars >>

\* lines 291-294: load_dataset raises; the zip loader is tried
StdLoadFails ==
    /\ lpc = "std_load"
    /\ fallback' = TRUE
    /\ lpc' = "zip_find"
    /\ UNCHANGED << namelist, zipCached, largs, context_length_str, temp_dir,
                    tempFiles, available_splits, actual_split, pending, loaded,
                    enrichVars, extracted, thr, fsVars, ctorVars, callVars >>

\* lines 140-174: the archive is looked up in the cache (ValueError when it is
\* not there) and context_length_str is computed
ZipFind ==
    /\ lpc = "zip_find"
    /\ IF zipCached
         THEN /\ context_length_str' = ContextLengthStr(largs.context_length)
              /\ lpc' = "mkdtemp"
              /\ pending' = "none"
         ELSE /\ context_length_str' = context_length_str
              /\ lpc' = "exit"
              /\ pending' = "ValueError"
    /\ UNCHANGED << namelist, zipCached, largs, fallback, temp_dir,
                    tempFiles, available_splits, actual_split, loaded,
                    enrichVars, extracted, thr, fsVars, ctorVars, callVars >>

\* line 177: temp_dir = Path(tempfile.mkdtemp(prefix='longcodebench_'))
MkDTemp ==
    /\ lpc = "mkdtemp"
    /\ temp_dir' = "exists"
    /\ lpc' = "resolve"
    /\ UNCHANGED << namelist, zipCached, largs, fallback, context_length_str,
                    tempFiles, available_splits, actual_split, pending, loaded,
                    enrichVars, extracted, thr, fsVars, ctorVars, callVars >>

\* lines 181-213: the splits of the archive under the context length, and the
\* split to use: the requested one, else 'train', else list(available_splits)[0]
\* (the first element of a set of strings: any of them), else ValueError
ResolveSplit ==
    /\ lpc = "resolve"
    /\ available_splits' = AvailableSplits(namelist, context_length_str)
    /\ IF largs.split \in available_splits'
         THEN actual_split' = largs.split /\ pending' = "none" /\ lpc' = "extract"
         ELSE IF "train" \in available_splits'
         THEN actual_split' = "train" /\ pending' = "none" /\ lpc' = "extract"
         ELSE IF available_splits' # {}
         THEN /\ \E s \in available_splits' : actual_split' = s
              /\ pending' = "none"
              /\ lpc' = "extract"
         ELSE /\ actual_split' = largs.split
              /\ pending' = "ValueError"
              /\ lpc' = "finally"
    /\ UNCHANGED << namelist, zipCached, largs, fallback, context_length_str, temp_dir,
                    tempFiles, loaded,
                    enrichVars, extracted, thr, fsVars, ctorVars, callVars >>

\* lines 216-224: the members below the split are extracted into temp_dir
\* (ValueError when there is none)
ExtractFiles ==
    /\ lpc = "extract"
    /\ LET files_to_extract ==
               FilesToExtract(namelist, context_length_str, actual_split)
       IN  IF files_to_extract = {}
             THEN /\ tempFiles' = tempFiles
                  /\ pending' = "ValueError"
                  /\ lpc' = "finally"
             ELSE /\ tempFiles' = files_to_extract
                  /\ pending' = "none"
                  /\ lpc' = "find_arrow"
    /\ UNCHANGED << namelist, zipCached, largs, fallback, context_length_str, temp_dir,
                    available_splits, actual_split, loaded,
                    enrichVars, extracted, thr, fsVars, ctorVars, callVars >>

\* lines 227-232: the Arrow files of the extracted split (ValueError when none)
FindArrow ==
    /\ lpc = "find_arrow"
    /\ IF ArrowFiles(tempFiles) = {}
         THEN pending' = "ValueError" /\ lpc' = "finally"
         ELSE pending' = "none" /\ lpc' = "load_arrow"
    /\ UNCHANGED << namelist, zipCached, largs, fallback, context_length_str, temp_dir,
                    tempFiles, available_splits, actual_split, loaded,
                    enrichVars, extracted, thr, fsVars, ctorVars, callVars >>

\* lines 236-259: load_dataset reads the Arrow files and a split of
\* dataset_dict is chosen as the value to return
LoadArrowReturns ==
    /\ lpc = "load_arrow"
    /\ IF PickKey(actual_split, DatasetDictKeys) # ""
         THEN /\ loaded' = [how |-> "none", split |-> actual_split,
                            key |-> PickKey(actual_split, DatasetDictKeys),
                            files |-> ArrowFiles(tempFiles), error |-> "none"]
              /\ pending' = "none"
         ELSE /\ loaded' = loaded
              /\ pending' = "ValueError"
    /\ lpc' = "finally"
    /\ UNCHANGED << namelist, zipCached, largs, fallback, context_length_str, temp_dir,
                    tempFiles, available_splits, actual_split,
                    enrichVars, extracted, thr, fsVars, ctorVars, callVars >>

\* line 236: load_dataset raises (unreadable Arrow file, no room in the cache)
LoadArrowFails ==
    /\ lpc = "load_arrow"
    /\ pending' = "Exception"
    /\ lpc' = "finally"
    /\ UNCHANGED << namelist, zipCached, largs, fallback, context_length_str, temp_dir,
                    tempFiles, available_splits, actual_split, loaded,
                    enrichVars, extracted, thr, fsVars, ctorVars, callVars >>

LoadFinallyKeepsOnError ==
    /\ lpc = "finally"
    /\ IF pending = "none"
         THEN temp_dir' = "removed" /\ tempFiles' = {}
         ELSE UNCHANGED << temp_dir, tempFiles >>
    /\ lpc' = "exit"
    /\ UNCHANGED << namelist, zipCached, largs, fallback, context_length_str,
                    available_splits, actual_split, pending, loaded,
                    enrichVars, extracted, thr, fsVars, ctorVars, callVars >>

\* lines 261-264: finally: if temp_dir.exists(): shutil.rmtree(temp_dir)
LoadFinally ==
    /\ lpc = "finally"
    /\ IF temp_dir = "exists"
         THEN temp_dir' = "removed" /\ tempFiles' = {}
         ELSE UNCHANGED << temp_dir, tempFiles >>
    /\ lpc' = "exit"
    /\ UNCHANGED << namelist, zipCached, largs, fallback, context_length_str,
                    available_splits, actual_split, pending, loaded,
                    enrichVars, extracted, thr, fsVars, ctorVars, callVars >>

\* the call ends: the dataset is returned, or the exception leaves it; from
\* the fallback of lines 293-299 every exception leaves as a ValueError
LoadExit ==
    /\ lpc = "exit"
    /\ loaded' = IF pending = "none"
                   THEN [loaded EXCEPT !.how = "returned"]
                   ELSE [NotLoaded EXCEPT !.how = "raised",
                                          !.error = IF fallback THEN "ValueError"
                                                                ELSE pending]
    /\ lpc' = "done"
    /\ UNCHANGED << namelist, zipCached, largs, fallback, context_length_str, temp_dir,
                    tempFiles, available_splits, actual_split, pending,
                    enrichVars, extracted, thr, fsVars, ctorVars, callVars >>

LoaderNext ==
    \/ LoadCall
    \/ LoadDispatch
    \/ StdLoadReturns
    \/ StdLoadFails
    \/ ZipFind
    \/ MkDTemp
    \/ ResolveSplit
    \/ ExtractFiles
    \/ FindArrow
    \/ LoadArrowReturns
    \/ LoadArrowFails
    \/ LoadFinally
    \/ LoadExit

\* the archive in the cache is any subset of the pool, or is not there
LoaderInit ==
    /\ AdapterInit
    /\ kind = "cline"
    /\ dirs = {Root, HomeDir, <<"w", "r">>}
    /\ LoaderIdle
    /\ namelist \in Archives
    /\ zipCached \in BOOLEAN
    /\ zipCached \/ namelist = {}
    /\ instance = EmptyInstance

LoaderSpec == LoaderInit /\ [][LoaderNext]_vars

----------------------------------------------------------------------------
(* has_context_files, get_context_files, enrich_instance_with_context       *)
(* (src/utils/longcodebench_loader.py)                                      *)

\* the truth value of a field value: an empty list, an empty string and None
\* are false
Truthy(val) == val.t \in {"list", "str", "int"} /\ val.v # << >>

\* lines 76-84: any(field in instance and instance[field] ...)
has_context_files(inst) ==
    \E i \in 1..Len(ContextFields) :
        ContextFields[i] \in DOMAIN inst /\ Truthy(inst[ContextFields[i]])

\* json.loads(files): a JSON array of strings is a list, a JSON number is an
\* integer; any other text of the model is not JSON
IsJsonArray(s) == Len(s) >= 2 /\ s[1] = "[" /\ s[Len(s)] = "]"
IsJsonNumber(s) == s = << "3" >>
IsJson(s) == IsJsonArray(s) \/ IsJsonNumber(s)

JsonLoads(s) ==
    IF IsJsonArray(s) THEN ListOf(SubSeq(s, 2, Len(s) - 1))
                      ELSE [t |-> "int", v |-> s]

\* line 118: [f.strip() for f in files.split('\n') if f.strip()]
IsPathToken(x) == x # "\n"
NewlineSeparated(s) == ListOf(SelectSeq(s, IsPathToken))

RECURSIVE GetFrom(_, _)
\* lines 106-120: the first field, in order, that is in the instance and
\* holds a list or a string decides; a field holding anything else is passed over
GetFrom(inst, i) ==
    IF i > Len(ContextFields) THEN ListOf(<< >>)
    ELSE LET field == ContextFields[i]
         IN  IF field \in DOMAIN inst /\ inst[field].t = "list"
               THEN inst[field]
             ELSE IF field \in DOMAIN inst /\ inst[field].t = "str"
               THEN IF IsJson(inst[field].v) THEN JsonLoads(inst[field].v)
                                             ELSE NewlineSeparated(inst[field].v)
             ELSE GetFrom(inst, i + 1)

get_context_files(inst) == GetFrom(inst, 1)

BoolOf(b) == [t |-> "bool", v |-> IF b THEN << "True" >> ELSE << >>]

\* lines 333-343: a copy of the instance with the keys context_files and
\* has_context set
EnrichedCopy(inst) ==
    IF has_context_files(inst)
      THEN ("context_files" :> get_context_files(inst))
             @@ ("has_context" :> BoolOf(TRUE)) @@ inst
      ELSE ("context_files" :> ListOf(<< >>))
             @@ ("has_context" :> BoolOf(FALSE)) @@ inst

\* enrich_instance_with_context(instance, repo_path)
Enrich ==
    /\ ~enriched.called
    /\ enriched' = [called |-> TRUE, dict |-> EnrichedCopy(instance)]
    /\ UNCHANGED << instance, zipVars, extracted, thr, fsVars, ctorVars, callVars >>

EnrichInit ==
    /\ AdapterInit
    /\ kind = "cline"
    /\ dirs = {Root, HomeDir, <<"w", "r">>}
    /\ LoaderIdle
    /\ namelist = {}
    /\ zipCached = FALSE
    /\ instance \in Instances

EnrichSpec == EnrichInit /\ [][Enrich]_vars

ProgramNext == CtorNext \/ CallNext \/ ClineNext \/ CodexNext \/ ExtractFileChanges

Next == ProgramNext \/ EnvNext

Spec == Init /\ [][Next]_vars

(* The interpreter goes on executing the statements of the caller's thread, a
   responsive probe exits, and time passes; nothing is assumed of the agent
   process or of the file system *)
CodexSteps ==
    \/ CodexOpenPty
    \/ CodexSpawn
    \/ CodexSpawnFails
    \/ CodexCloseSlave
    \/ CodexWritePrompt
    \/ CodexWriteFails
    \/ CodexDeadline
    \/ CodexTerminate
    \/ CodexTimeoutRestore
    \/ CodexTimeoutReturn
    \/ CodexPoll
    \/ CodexSelectReady
    \/ CodexSelectIdle
    \/ CodexRead
    \/ CodexReadError
    \/ CodexReadEof
    \/ CodexDrainRead
    \/ CodexDrainEnd
    \/ CodexWait
    \/ CodexRestore
    \/ CodexReturn
    \/ CodexInnerExcept
    \/ CodexExcept

Fairness ==
    /\ WF_vars(CtorCheck)
    /\ WF_vars(ProbeExit)
    /\ WF_vars(GetCwd \/ ChDir)
    /\ WF_vars(ClineNext)
    /\ WF_vars(CodexSteps)
    /\ WF_vars(Tick)

LiveSpec == Init /\ [][Next]_vars /\ Fairness

----------------------------------------------------------------------------
(* Properties *)

Returned == pc = "returned"

TimeoutMessages == { "Command timed out after 10 minutes",
                     "Command timed out after 30 minutes" }

\* the text mentions the timeout ("timed out")
MentionsTimeout(text) == \E i \in DOMAIN text : text[i] \in TimeoutMessages

\* C1: in every result execute_code_cli returns, of either adapter and on every
\* exit path, success is true exactly when returncode is 0
SuccessIffReturncodeZero ==
    Returned => (result.success <=> result.returncode = 0)

\* C1 witness: the pseudo-terminal adapter has returned the result of an agent
\* that exited with a non-zero code
NonZeroExitReturned ==
    /\ Returned
    /\ kind = "codex"
    /\ proc.st = "exited"
    /\ result.returncode = 1
    /\ ~result.success

\* C2: whenever execute_code_cli has returned a result, the process-wide working
\* directory is the one that was current immediately before the call
CwdRestoredOnReturn ==
    Returned => cwdProc = cwdBefore

\* C2 witness: a timeout result was returned by a call that had changed to a
\* directory other than the caller's and started its agent there
TimeoutReturnedAfterChdir ==
    /\ Returned
    /\ MentionsTimeout(result.stderr)
    /\ spawns = 1
    /\ proc.cwd # cwdBefore
    /\ cwdProc = cwdBefore

\* C3: execute_code_cli never raises to its caller: every failure during a call
\* ends in a returned result
NeverRaises ==
    pc # "raised" /\ escaped = "none"

\* C4: a call whose deadline passed while the agent process was still running
\* returns a result with success false, returncode -1 and a stderr that
\* mentions the timeout
ExpiredCallReturnsTimeout ==
    (Returned /\ expiredAlive)
        => /\ ~result.success
           /\ result.returncode = -1
           /\ result.stderr # << >>
           /\ MentionsTimeout(result.stderr)

\* C5: every call of the pseudo-terminal adapter's execute_code_cli eventually
\* returns, whatever the agent process does
CodexCallReturns ==
    (kind = "codex" /\ pc = "getcwd") ~> (pc \in {"returned", "raised"})

\* C6: a timeout result of the pseudo-terminal adapter holds in stdout all the
\* bytes read from the controlling descriptor before the expiry, decoded
CodexTimeoutKeepsOutput ==
    (Returned /\ kind = "codex" /\ MentionsTimeout(result.stderr))
        => result.stdout = DecodeIgnore(Join(stdout_data))

\* C7: every returned result with success false has a non-empty stderr
FailureHasStderr ==
    (Returned /\ ~result.success) => result.stderr # << >>

\* C8: when the pseudo-terminal adapter's execute_code_cli returns, both
\* descriptors obtained from pty.openpty() are closed, each by exactly one
\* os.close call
PtyDescriptorsClosedOnce ==
    (Returned /\ kind = "codex" /\ master_fd # "none")
        => /\ master_fd = "closed"
           /\ slave_fd = "closed"
           /\ closeCalls = [master |-> 1, slave |-> 1]

\* C9: a construction that fails (binary absent, probe exits non-zero, probe
\* cannot be started for another reason) fails with the RuntimeError naming the
\* missing CLI, and no call and no agent process follow it
CtorFailsWithRuntimeError ==
    ctor = "failed" => (ctorError = "RuntimeError" /\ pc = "idle" /\ spawns = 0)

\* C10: adapter construction always terminates: a probe that never exits makes
\* construction fail instead of blocking forever
ConstructionTerminates ==
    (ctor = "probe_wait") ~> (ctor \in {"constructed", "failed"})


\* C11: when a timeout result is returned the agent process of the call is no
\* longer running, and in the pseudo-terminal strategy the termination has been
\* issued before the controlling descriptor is closed
TimeoutLeavesNoAgent ==
    /\ (Returned /\ MentionsTimeout(result.stderr)) => proc.st = "exited"
    /\ (kind = "codex" /\ pc = "cx_to_return")
          => (proc.sig = "TERM" \/ proc.st = "exited")


\* C12: a call that ended in a failure other than a timeout (the caught exception
\* is still recorded in exc) has returned, and its result is success = false,
\* returncode = -1, empty stdout, and the text of that failure as stderr
FailureReturnsErrorResult ==
    (pc \in {"returned", "raised"} /\ exc # "none")
        => /\ pc = "returned"
           /\ result = [success |-> FALSE, stdout |-> << >>, stderr |-> << exc >>,
                        returncode |-> -1]


\* C13: in the pipe strategy, a call that returned after the agent exited by
\* itself with exit code c, having written o to standard output and e to
\* standard error, returned {success: c = 0, stdout: o, stderr: e, returncode: c}
ClineCleanExitResult ==
    (Returned /\ kind = "cline" /\ proc.st = "exited" /\ proc.sig = "none")
        => result = [success |-> proc.rc = 0, stdout |-> outbuf, stderr |-> errbuf,
                     returncode |-> proc.rc]


\* the arguments of a command line that name a model
ModelFlags == { <<"--model">>, <<"-s">>, <<"-m">> }

MentionsModel(c, m) ==
    \E i \in 1..Len(c) : c[i] \in ModelFlags \/ (m # << >> /\ c[i] = m)

\* C14: the pipe-based backend ignores the model argument: calls that differ only
\* in the model build the same command line; the command line of a call holds no
\* model flag or model value and ends with the prompt; a call succeeds only
\* after exit code 0, and a call that read the output of an agent that exited
\* with code 0 succeeds, whatever the model
ClineIgnoresModel ==
    /\ \A pr \in Prompts, c \in CwdArgs, m1 \in Models, m2 \in Models :
          BuildCmd("cline", [prompt |-> pr, cwd |-> c, model |-> m1])
            = BuildCmd("cline", [prompt |-> pr, cwd |-> c, model |-> m2])
    /\ (kind = "cline" /\ cmd # << >>)
          => /\ ~MentionsModel(cmd, args.model)
             /\ cmd[Len(cmd)] = args.prompt
    /\ (kind = "cline" /\ Returned /\ result.success)
          => (proc.st = "exited" /\ proc.rc = 0)
    /\ (kind = "cline" /\ Returned /\ exc = "none" /\ proc.st = "exited"
          /\ proc.sig = "none" /\ proc.rc = 0)
          => result.success

ModelGivenCallSucceeds ==
    /\ kind = "cline"
    /\ Returned
    /\ args.model = <<"gpt-9">>
    /\ spawns = 1
    /\ result.success


\* C15: in the pipe strategy, a call that returned after its deadline expired
\* (run() killed the agent) kept the partial output: stdout is the whole partial
\* standard output, stderr contains the whole partial standard error, and the
\* message states both sizes when either is non-empty
ClineTimeoutKeepsPartialOutput ==
    (Returned /\ kind = "cline" /\ proc.sig = "KILL")
        => /\ result.stdout = outbuf
           /\ Contains(result.stderr, errbuf)
           /\ (outbuf # << >> \/ errbuf # << >>)
                 => Contains(result.stderr,
                             << ". Partial output - stdout: ", ToString(Len(outbuf)),
                                " chars, stderr: ", ToString(Len(errbuf)), " chars" >>)


\* C16: every call of extract_file_changes, with an empty or a non-empty
\* response, before or after invocations, returns the empty list and changes
\* nothing else
ExtractReturnsEmptyList ==
    [][ (extracted' # extracted)
           => /\ extracted'.changes = << >>
              /\ UNCHANGED << thr, loaderVars, fsVars, ctorVars, callVars >> ]_vars

ExtractedAfterInvocation ==
    /\ Returned
    /\ spawns = 1
    /\ extracted.response # << >>
    /\ extracted.changes = << >>


\* C17: in the pseudo-terminal strategy, a call that returned normally after
\* the agent exited before the deadline has every byte the agent wrote, in
\* order, as its stdout; and the controlling descriptor stays open while the
\* loop and the final drain pass read it
CodexStdoutHasEveryByte ==
    /\ (Returned /\ kind = "codex" /\ exc = "none" /\ proc.st = "exited"
          /\ ~expiredAlive)
          => result.stdout = emitted
    /\ (kind = "codex" /\ pc \in {"cx_deadline", "cx_poll", "cx_select", "cx_read",
                                  "cx_drain"})
          => master_fd = "open"


\* the phases of the pseudo-terminal invocation, in their order: before it (0),
\* starting (1), polling (2), draining (3), done (4)
PhaseOf(p) ==
    CASE p \in {"idle", "getcwd", "chdir"} -> 0
      [] p \in {"cx_openpty", "cx_popen", "cx_close_slave", "cx_write"} -> 1
      [] p \in {"cx_deadline", "cx_poll", "cx_select", "cx_read"} -> 2
      [] p = "cx_drain" -> 3
      [] OTHER -> 4

\* the prompt is written once, whole, with a trailing newline, while starting
PromptWrittenOnce ==
    (written' # written)
        => /\ written = << >>
           /\ written' = args.prompt \o << "\n" >>
           /\ PhaseOf(pc) = 1

AtMostOneSpawnPerCall ==
    /\ spawns <= 1
    /\ (cmd = << >>) => (spawns = 0 /\ proc.st = "none")
    /\ (kind = "codex" /\ master_fd = "none") => (spawns = 0 /\ proc.st = "none")
    /\ (pc \in {"returned", "raised"} /\ proc.st = "none") => spawns = 0

TimeoutReturnedAfterOneSpawn ==
    /\ Returned
    /\ MentionsTimeout(result.stderr)
    /\ ~result.success
    /\ spawns = 1


BothReturned == \A t \in Threads : thr[t].pc = "returned"

Overlapped == \E t \in Threads : thr[t].overlap

\* C19: calls of two threads that overlap are unsafe because they share the
\* working directory of the process.  Calls that did not overlap leave the
\* process in the directory it was in before them; only overlapping calls
\* can leave it elsewhere, or have an agent started while the process is in a
\* directory the calling thread did not change to
OnlyOverlappingCallsLoseCwd ==
    /\ (~Overlapped /\ \A t \in Threads : ~ThrInCall(t)) => cwdProc = HomeDir
    /\ \A t \in Threads :
          (~Overlapped /\ thr[t].launched # NoDir) => thr[t].launched = thr[t].target

\* both calls have returned, the process is not in the directory it was in
\* before them, and an agent was started in the other call's directory
ConcurrentCallsLoseCwd ==
    /\ BothReturned
    /\ cwdProc # HomeDir
    /\ \E t \in Threads :
          /\ thr[t].launched # NoDir
          /\ thr[t].launched # thr[t].target
          /\ thr[t].launched = thr[Other(t)].target


\* C21: the agent process of a call, of either adapter, is started in the
\* requested directory: the cwd argument resolved once, against the directory
\* the caller was in when it made the call
AgentStartsInRequestedDir ==
    (proc.st # "none") => proc.cwd = Resolve(cwdBefore, args.cwd)


LoadEnded == lpc = "done"

\* C22: when a load call has ended, with the dataset returned or with an
\* exception raised, the temporary directory it created does not exist any
\* more and nothing that was extracted is left
TempDirRemovedAfterLoad ==
    LoadEnded => (temp_dir # "exists" /\ tempFiles = {})

\* an exception was raised after files had been found for a split, and the
\* directory that had been created is gone
RaisedAfterTempDirCreated ==
    /\ LoadEnded
    /\ loaded.how = "raised"
    /\ available_splits # {}
    /\ temp_dir = "removed"


\* the splits the archive has under a context length: the directories
\* LongSWE_Bench/<ctx>/<split>/ that hold at least one member
ArchiveSplits(names, ctx) ==
    { f[3] : f \in { g \in names : Len(g) >= 4 /\ g[1] = LSB /\ g[2] = ctx } }

\* the zip loader has chosen the split to use
SplitResolved ==
    lpc \in {"extract", "find_arrow", "load_arrow"}
      \/ (lpc \in {"finally", "exit", "done"} /\ available_splits # {})

\* C23: a Steefano/LCB name always goes to the zip loader, which uses the
\* requested split if the archive has it under the context length, else 'train'
\* if the archive has it, else another split the archive has, and raises
\* ValueError when the archive has no split there; what is extracted is a
\* split of the archive
ZipLoaderResolvesSplit ==
    LET has == ArchiveSplits(namelist, context_length_str)
    IN  /\ IsSteefano(largs.dataset_name) => (lpc # "std_load" /\ ~fallback)
        /\ (IsSteefano(largs.dataset_name) /\ SplitResolved)
              => /\ (largs.split \in has) => actual_split = largs.split
                 /\ (largs.split \notin has /\ "train" \in has)
                       => actual_split = "train"
                 /\ (has # {}) => actual_split \in has
        /\ (IsSteefano(largs.dataset_name) /\ LoadEnded /\ temp_dir # "none"
              /\ has = {})
              => (loaded.how = "raised" /\ loaded.error = "ValueError")
        /\ (tempFiles # {}) => actual_split \in has


\* what a field value holds as a list of paths
ContentOf(val) ==
    IF val.t = "str"
      THEN (IF IsJson(val.v) THEN JsonLoads(val.v) ELSE NewlineSeparated(val.v))
      ELSE val

NonEmptyList(val) == val.t = "list" /\ val.v # << >>

\* C24: the dictionary enrich_instance_with_context returns keeps the other
\* fields of the instance; its has_context is true exactly when its
\* context_files is a non-empty list of paths; and when has_context_files holds,
\* get_context_files returns the non-empty content of one of the context
\* fields of the instance
EnrichMarksContext ==
    enriched.called
      => /\ \A f \in DOMAIN instance \ {"context_files"} :
                enriched.dict[f] = instance[f]
         /\ (enriched.dict["has_context"] = BoolOf(TRUE))
               <=> NonEmptyList(enriched.dict["context_files"])
         /\ has_context_files(instance)
               => /\ NonEmptyList(get_context_files(instance))
                  /\ \E f \in ContextFieldNames \cap DOMAIN instance :
                        get_context_files(instance) = ContentOf(instance[f])

====
